---- MODULE Spec2Model ----
(***************************************************************************)
(* The Canvas of future_tokenizer/core/models.py: the node map, the root   *)
(* pointer, the active path and the snapshot undo/redo stacks, with one    *)
(* action per public Canvas operation.                                     *)
(***************************************************************************)
EXTENDS Integers, Sequences, FiniteSets, TLC

\* ---------------------------------------------------------------- bounds
\* ids the factories hand out in one behaviour (_generate_id is called once
\* per created node and never repeats an id)
MaxIds == 3
\* public Canvas calls in one behaviour with freely chosen calls
MaxSteps == 4
\* mutations in one long behaviour (add the root, then edit it again and
\* again); more than MAX_UNDO_HISTORY, so that the undo stack overflows
LongM == 52
\* ids in one node_ids list handed to get_context_for_multiple_nodes
MaxSel == 3
\* public Canvas calls in one behaviour that builds a canvas to select from
MaxSelSteps == 3
\* public Canvas calls in one behaviour that links nodes, deletes some and
\* then removes links
MaxLinkSteps == 5

\* ------------------------------------------------------- program constants
MAX_UNDO_HISTORY == 50

\* a falsy id: Optional[str] None (root_id, a root's parent_id, delete_node's
\* "nothing deleted") and the empty string a caller passes as parent_id; the
\* code tests both with `if x` / `x or y` only
None == 0
\* an id string that no factory ever produced (a caller-supplied unknown id)
Ghost == 0 - 1

\* NodeType members (OPERATION and PLAN nodes are handled like USER nodes by
\* every Canvas operation: only ROOT is ever tested for)
ROOT == "NodeType.ROOT"
USER == "NodeType.USER"
OPERATION == "NodeType.OPERATION"

\* NodeType.value, as CanvasNode.to_dict stores it
type_value(t) ==
    CASE t = ROOT -> "root" [] t = USER -> "user" [] t = OPERATION -> "operation"

\* NodeType(value), as CanvasNode.from_dict reads it back
NodeType(v) ==
    CASE v = "root" -> ROOT [] v = "user" -> USER [] v = "operation" -> OPERATION

\* content_full values a caller edits a node to (factories create with "a")
Contents == {"b"}

VARIABLES
    nodes,        \* Canvas.nodes: id -> CanvasNode
    root_id,      \* Canvas.root_id
    active_path,  \* Canvas.active_path
    undo_stack,   \* Canvas._undo_stack
    redo_stack,   \* Canvas._redo_stack
    next_id,      \* the next id _generate_id hands out
    steps,        \* public calls made so far
    last,         \* the last public call: its name, arguments, result, pre-state
    run,          \* the current run of mutations M and of the undo/redo calls after it
    pending       \* the run_skill request that awaits its completion: the id of
                  \* the node it looked up (None when no request is in flight) and
                  \* whether a delete_node has removed that node since

vars == <<nodes, root_id, active_path, undo_stack, redo_stack, next_id, steps, last, run,
          pending>>

\* ------------------------------------------------------------- helpers
Range(s) == {s[i] : i \in 1..Len(s)}

RECURSIVE Reverse(_)
Reverse(s) == IF s = <<>> THEN <<>> ELSE Append(Reverse(Tail(s)), Head(s))

\* a delete_node that forgets to strip the parent's children list
WithoutNothing(s, gone) == s

RECURSIVE Without(_, _)
\* [cid for cid in s if cid not in gone]
Without(s, gone) ==
    IF s = <<>> THEN <<>>
    ELSE IF Head(s) \in gone THEN Without(Tail(s), gone)
         ELSE <<Head(s)>> \o Without(Tail(s), gone)

\* the canvas as one value
Canvas(n, r, p, u, d) ==
    [nodes |-> n, root_id |-> r, active_path |-> p, undo |-> u, redo |-> d]

Cur == Canvas(nodes, root_id, active_path, undo_stack, redo_stack)

\* ------------------------------------------------------------ CanvasNode
\* CanvasNode.create_root: a ROOT node without parent
create_root(id) ==
    [id |-> id, type |-> ROOT, parent_id |-> None,
     children_ids |-> <<>>, links_to |-> <<>>, content_full |-> "a"]

\* CanvasNode.create_note: a USER node under the parent_id the caller names
create_note(id, parent_id) ==
    [id |-> id, type |-> USER, parent_id |-> parent_id,
     children_ids |-> <<>>, links_to |-> <<>>, content_full |-> "a"]

\* CanvasNode.create_operation: an OPERATION node under parent_id
create_operation(id, parent_id) ==
    [id |-> id, type |-> OPERATION, parent_id |-> parent_id,
     children_ids |-> <<>>, links_to |-> <<>>, content_full |-> "a"]

\* CanvasNode.to_dict
node_to_dict(node) == [node EXCEPT !.type = type_value(node.type)]

\* CanvasNode.from_dict
node_from_dict(d) == [d EXCEPT !.type = NodeType(d.type)]

\* ------------------------------------------------------------- undo/redo
\* Canvas._snapshot: a deep copy of {nodes as dicts, root_id, active_path}
snapshot(c) ==
    [nodes |-> [nid \in DOMAIN c.nodes |-> node_to_dict(c.nodes[nid])],
     root_id |-> c.root_id, active_path |-> c.active_path]

\* a _push_undo that evicts one push too early
push_undo_early_evict(c) ==
    LET s == Append(c.undo, snapshot(c))
    IN  [c EXCEPT !.undo = IF Len(s) >= MAX_UNDO_HISTORY THEN Tail(s) ELSE s,
                  !.redo = <<>>]

\* a _push_undo that leaves the redo stack alone
push_undo_keep_redo(c) ==
    LET s == Append(c.undo, snapshot(c))
    IN  [c EXCEPT !.undo = IF Len(s) > MAX_UNDO_HISTORY THEN Tail(s) ELSE s]

\* a _push_undo that never evicts
push_undo_no_evict(c) ==
    [c EXCEPT !.undo = Append(c.undo, snapshot(c)), !.redo = <<>>]

\* Canvas._push_undo
push_undo(c) ==
    LET s == Append(c.undo, snapshot(c))
    IN  [c EXCEPT !.undo = IF Len(s) > MAX_UNDO_HISTORY THEN Tail(s) ELSE s,
                  !.redo = <<>>]

\* a _restore_snapshot that leaves root_id as it is
restore_snapshot_keep_root(c, state) ==
    [c EXCEPT !.nodes = [nid \in DOMAIN state.nodes |-> node_from_dict(state.nodes[nid])],
              !.active_path = state.active_path]

\* Canvas._restore_snapshot
restore_snapshot(c, state) ==
    [c EXCEPT !.nodes = [nid \in DOMAIN state.nodes |-> node_from_dict(state.nodes[nid])],
              !.root_id = state.root_id,
              !.active_path = state.active_path]

\* an undo that saves the current state for redo before it looks at the stack
undo_saves_first(c) ==
    LET c1 == [c EXCEPT !.redo = Append(c.redo, snapshot(c))]
    IN  IF c.undo = <<>> THEN [c |-> c1, ok |-> FALSE]
        ELSE LET state == c1.undo[Len(c1.undo)]
                 c2 == [c1 EXCEPT !.undo = SubSeq(c1.undo, 1, Len(c1.undo) - 1)]
             IN  [c |-> restore_snapshot(c2, state), ok |-> TRUE]

\* Canvas.undo: the canvas afterwards and the boolean it returns
undo(c) ==
    IF c.undo = <<>> THEN [c |-> c, ok |-> FALSE]
    ELSE LET c1 == [c EXCEPT !.redo = Append(c.redo, snapshot(c))]
             state == c1.undo[Len(c1.undo)]
             c2 == [c1 EXCEPT !.undo = SubSeq(c1.undo, 1, Len(c1.undo) - 1)]
         IN  [c |-> restore_snapshot(c2, state), ok |-> TRUE]

\* a redo that leaves the snapshot it restores on the redo stack
redo_keeps_entry(c) ==
    IF c.redo = <<>> THEN [c |-> c, ok |-> FALSE]
    ELSE LET c1 == [c EXCEPT !.undo = Append(c.undo, snapshot(c))]
         IN  [c |-> restore_snapshot(c1, c1.redo[Len(c1.redo)]), ok |-> TRUE]

\* Canvas.redo
redo(c) ==
    IF c.redo = <<>> THEN [c |-> c, ok |-> FALSE]
    ELSE LET c1 == [c EXCEPT !.undo = Append(c.undo, snapshot(c))]
             state == c1.redo[Len(c1.redo)]
             c2 == [c1 EXCEPT !.redo = SubSeq(c1.redo, 1, Len(c1.redo) - 1)]
         IN  [c |-> restore_snapshot(c2, state), ok |-> TRUE]

\* Canvas.can_undo / Canvas.can_redo
can_undo(c) == Len(c.undo) > 0
can_redo(c) == Len(c.redo) > 0

\* ------------------------------------------------------------- add_node
\* Canvas.add_node
add_node(c, node, record_undo) ==
    LET c1 == IF record_undo THEN push_undo(c) ELSE c
        n1 == (node.id :> node) @@ c1.nodes
        n2 == IF node.parent_id # None /\ node.parent_id \in DOMAIN n1
                 /\ node.id \notin Range(n1[node.parent_id].children_ids)
              THEN [n1 EXCEPT ![node.parent_id].children_ids = Append(@, node.id)]
              ELSE n1
    IN  IF node.type = ROOT
        THEN [c1 EXCEPT !.nodes = n2, !.root_id = node.id, !.active_path = <<node.id>>]
        ELSE [c1 EXCEPT !.nodes = n2]

\* ------------------------------------------------------------ set_focus
RECURSIVE walk_up(_, _, _)
\* the while loop of set_focus: the path collected from `current` upwards,
\* whether self.nodes[current] raised KeyError on the way, and whether the
\* loop never ends (`fuel`, the number of nodes plus one, runs out only when
\* the parent_id chain is a cycle)
walk_up(ns, current, fuel) ==
    IF current = None THEN [path |-> <<>>, raised |-> FALSE, loops |-> FALSE]
    ELSE IF current \notin DOMAIN ns THEN [path |-> <<>>, raised |-> TRUE, loops |-> FALSE]
    ELSE IF fuel = 0 THEN [path |-> <<>>, raised |-> FALSE, loops |-> TRUE]
    ELSE LET rest == walk_up(ns, ns[current].parent_id, fuel - 1)
         IN  [path |-> <<current>> \o rest.path, raised |-> rest.raised,
              loops |-> rest.loops]

\* Canvas.set_focus: the canvas afterwards and whether the call failed to
\* return (KeyError, or the endless loop); active_path is assigned last, so a
\* call that does not return leaves the canvas as it was
set_focus(c, node_id) ==
    IF node_id \notin DOMAIN c.nodes THEN [c |-> c, raised |-> FALSE]
    ELSE LET w == walk_up(c.nodes, node_id, Cardinality(DOMAIN c.nodes) + 1)
         IN  IF w.raised \/ w.loops THEN [c |-> c, raised |-> TRUE]
             ELSE [c |-> [c EXCEPT !.active_path = Reverse(w.path)], raised |-> FALSE]

\* ---------------------------------------------------------- delete_node
\* a _collect_descendants that stops at the direct children
collect_children_only(ns, node_id) ==
    IF node_id \notin DOMAIN ns THEN {} ELSE Range(ns[node_id].children_ids)

RECURSIVE collect_descendants(_, _)
\* Canvas._collect_descendants
collect_descendants(ns, node_id) ==
    IF node_id \notin DOMAIN ns THEN {}
    ELSE LET kids == Range(ns[node_id].children_ids)
         IN  kids \cup UNION {collect_descendants(ns, k) : k \in kids}

\* a delete_node that records the undo snapshot before it rejects the call
delete_node_snapshot_first(c, node_id, record_undo) ==
    LET c1 == IF record_undo THEN push_undo(c) ELSE c
    IN  IF node_id \notin DOMAIN c.nodes \/ c.nodes[node_id].type = ROOT
        THEN [c |-> c1, ret |-> None, deleted |-> FALSE, raised |-> FALSE]
        ELSE LET parent_id == c1.nodes[node_id].parent_id
                 to_delete == collect_descendants(c1.nodes, node_id) \cup {node_id}
                 n1 == IF parent_id # None /\ parent_id \in DOMAIN c1.nodes
                       THEN [c1.nodes EXCEPT ![parent_id].children_ids = Without(@, to_delete)]
                       ELSE c1.nodes
                 c2 == [c1 EXCEPT !.nodes = [i \in DOMAIN n1 \ to_delete |-> n1[i]]]
                 target == IF parent_id # None THEN parent_id
                           ELSE IF c2.root_id # None THEN c2.root_id ELSE None
                 f == IF node_id \in Range(c2.active_path)
                      THEN set_focus(c2, target)
                      ELSE [c |-> c2, raised |-> FALSE]
             IN  [c |-> f.c, ret |-> parent_id, deleted |-> TRUE,
                  raised |-> ~(to_delete \subseteq DOMAIN n1) \/ f.raised]

\* Canvas.delete_node: the canvas afterwards, the returned parent id (None
\* when nothing was deleted), whether a node was deleted, whether it raised
\* (`del self.nodes[nid]` for an id that is no key, or the set_focus it calls)
delete_node(c, node_id, record_undo) ==
    IF node_id \notin DOMAIN c.nodes \/ c.nodes[node_id].type = ROOT
    THEN [c |-> c, ret |-> None, deleted |-> FALSE, raised |-> FALSE]
    ELSE LET c1 == IF record_undo THEN push_undo(c) ELSE c
             parent_id == c1.nodes[node_id].parent_id
             to_delete == collect_descendants(c1.nodes, node_id) \cup {node_id}
             n1 == IF parent_id # None /\ parent_id \in DOMAIN c1.nodes
                   THEN [c1.nodes EXCEPT ![parent_id].children_ids = Without(@, to_delete)]
                   ELSE c1.nodes
             n2 == [i \in DOMAIN n1 \ to_delete |-> n1[i]]
             c2 == [c1 EXCEPT !.nodes = n2]
             keyerr == ~(to_delete \subseteq DOMAIN n1)
             target == IF parent_id # None THEN parent_id
                       ELSE IF c2.root_id # None THEN c2.root_id ELSE None
             f == IF node_id \in Range(c2.active_path)
                  THEN set_focus(c2, target)
                  ELSE [c |-> c2, raised |-> FALSE]
         IN  [c |-> f.c, ret |-> parent_id, deleted |-> TRUE,
              raised |-> keyerr \/ f.raised]

\* ------------------------------------------------------------- edit_node
\* CanvasNode.update_content (content_compressed is derived from content_full
\* alone and is read by no graph operation)
update_content(node, new_content) == [node EXCEPT !.content_full = new_content]

\* Canvas.edit_node: the canvas afterwards and the boolean it returns
edit_node(c, node_id, new_content, record_undo) ==
    IF node_id \notin DOMAIN c.nodes THEN [c |-> c, ok |-> FALSE]
    ELSE LET c1 == IF record_undo THEN push_undo(c) ELSE c
         IN  [c |-> [c1 EXCEPT !.nodes[node_id] = update_content(@, new_content)],
              ok |-> TRUE]

\* ---------------------------------------------------------------- links
\* a CanvasNode.add_link that appends without looking for the target
node_add_link_always(node, target_id) ==
    [node |-> [node EXCEPT !.links_to = Append(@, target_id)], ok |-> TRUE]

\* CanvasNode.add_link: the node afterwards and the boolean it returns
node_add_link(node, target_id) ==
    IF target_id \notin Range(node.links_to)
    THEN [node |-> [node EXCEPT !.links_to = Append(@, target_id)], ok |-> TRUE]
    ELSE [node |-> node, ok |-> FALSE]

RECURSIVE RemoveFirst(_, _)
\* list.remove(x): drops the first occurrence
RemoveFirst(s, x) ==
    IF s = <<>> THEN <<>>
    ELSE IF Head(s) = x THEN Tail(s)
         ELSE <<Head(s)>> \o RemoveFirst(Tail(s), x)

\* CanvasNode.remove_link
node_remove_link(node, target_id) ==
    IF target_id \in Range(node.links_to)
    THEN [node |-> [node EXCEPT !.links_to = RemoveFirst(@, target_id)], ok |-> TRUE]
    ELSE [node |-> node, ok |-> FALSE]

\* Canvas.add_link
add_link(c, from_id, to_id, record_undo) ==
    IF from_id \notin DOMAIN c.nodes \/ to_id \notin DOMAIN c.nodes
    THEN [c |-> c, ok |-> FALSE]
    ELSE IF from_id = to_id THEN [c |-> c, ok |-> FALSE]
    ELSE LET c1 == IF record_undo THEN push_undo(c) ELSE c
             r == node_add_link(c1.nodes[from_id], to_id)
         IN  [c |-> [c1 EXCEPT !.nodes[from_id] = r.node], ok |-> r.ok]

\* a remove_link that also wants to_id to be a key of nodes
remove_link_validates_both(c, from_id, to_id, record_undo) ==
    IF from_id \notin DOMAIN c.nodes \/ to_id \notin DOMAIN c.nodes
    THEN [c |-> c, ok |-> FALSE]
    ELSE LET c1 == IF record_undo THEN push_undo(c) ELSE c
             r == node_remove_link(c1.nodes[from_id], to_id)
         IN  [c |-> [c1 EXCEPT !.nodes[from_id] = r.node], ok |-> r.ok]

\* Canvas.remove_link
remove_link(c, from_id, to_id, record_undo) ==
    IF from_id \notin DOMAIN c.nodes THEN [c |-> c, ok |-> FALSE]
    ELSE LET c1 == IF record_undo THEN push_undo(c) ELSE c
             r == node_remove_link(c1.nodes[from_id], to_id)
         IN  [c |-> [c1 EXCEPT !.nodes[from_id] = r.node], ok |-> r.ok]

\* a get_linked_nodes that resolves every entry (self.nodes[lid] raises
\* KeyError on an entry that is no key)
linked_unfiltered(ns, links) == [ids |-> links, raised |-> ~(Range(links) \subseteq DOMAIN ns)]

RECURSIVE linked_present(_, _)
\* [self.nodes[lid] for lid in node.links_to if lid in self.nodes]: the ids
\* of the nodes returned, and whether a lookup raised
linked_present(ns, links) ==
    IF links = <<>> THEN [ids |-> <<>>, raised |-> FALSE]
    ELSE LET rest == linked_present(ns, Tail(links))
         IN  IF Head(links) \in DOMAIN ns
             THEN [ids |-> <<Head(links)>> \o rest.ids, raised |-> rest.raised]
             ELSE rest

\* Canvas.get_linked_nodes
get_linked_nodes(c, node_id) ==
    IF node_id \notin DOMAIN c.nodes THEN [ids |-> <<>>, raised |-> FALSE]
    ELSE linked_present(c.nodes, c.nodes[node_id].links_to)

\* a get_backlinks that also counts the nodes node_id links to
get_backlinks_both_ways(c, node_id) ==
    {n \in DOMAIN c.nodes :
        \/ node_id \in Range(c.nodes[n].links_to)
        \/ node_id \in DOMAIN c.nodes /\ n \in Range(c.nodes[node_id].links_to)}

\* Canvas.get_backlinks: the ids of the nodes returned (their order, that of
\* the nodes dict, is not kept)
get_backlinks(c, node_id) ==
    {n \in DOMAIN c.nodes : node_id \in Range(c.nodes[n].links_to)}

\* ------------------------------------------------------------- siblings
\* list.index(x): the first position of x in s, 0 for ValueError
index(s, x) ==
    IF x \in Range(s) THEN CHOOSE i \in 1..Len(s) : s[i] = x /\ \A j \in 1..(i - 1) : s[j] # x
    ELSE 0

\* self.nodes.get(id): the id itself when it is a key, None otherwise
nodes_get(ns, id) == IF id \in DOMAIN ns THEN id ELSE None

\* a get_next_sibling that goes round to the first child behind the last
get_next_sibling_wraps(c, node_id) ==
    IF node_id \notin DOMAIN c.nodes \/ c.nodes[node_id].parent_id = None THEN None
    ELSE IF c.nodes[node_id].parent_id \notin DOMAIN c.nodes THEN None
    ELSE LET kids == c.nodes[c.nodes[node_id].parent_id].children_ids
             idx == index(kids, node_id)
         IN  IF idx = 0 THEN None
             ELSE nodes_get(c.nodes, kids[(idx % Len(kids)) + 1])

\* Canvas.get_next_sibling: the id of the node returned, None for None
get_next_sibling(c, node_id) ==
    IF node_id \notin DOMAIN c.nodes \/ c.nodes[node_id].parent_id = None THEN None
    ELSE IF c.nodes[node_id].parent_id \notin DOMAIN c.nodes THEN None
    ELSE LET kids == c.nodes[c.nodes[node_id].parent_id].children_ids
             idx == index(kids, node_id)
         IN  IF idx # 0 /\ idx < Len(kids) THEN nodes_get(c.nodes, kids[idx + 1])
             ELSE None

\* Canvas.get_prev_sibling
get_prev_sibling(c, node_id) ==
    IF node_id \notin DOMAIN c.nodes \/ c.nodes[node_id].parent_id = None THEN None
    ELSE IF c.nodes[node_id].parent_id \notin DOMAIN c.nodes THEN None
    ELSE LET kids == c.nodes[c.nodes[node_id].parent_id].children_ids
             idx == index(kids, node_id)
         IN  IF idx > 1 THEN nodes_get(c.nodes, kids[idx - 1])
             ELSE None

\* ---------------------------------------------------------- persistence
\* Canvas.to_dict: the entries that carry the graph (name, created_at,
\* compress_length and the source paths are copied through unread)
canvas_to_dict(c) ==
    [nodes |-> [nid \in DOMAIN c.nodes |-> node_to_dict(c.nodes[nid])],
     root_id |-> c.root_id, active_path |-> c.active_path]

\* a from_dict that does not read active_path
canvas_from_dict_no_path(d) ==
    Canvas([nid \in DOMAIN d.nodes |-> node_from_dict(d.nodes[nid])],
           d.root_id, <<>>, <<>>, <<>>)

\* Canvas.from_dict: a new Canvas, its stacks empty as the constructor
\* leaves them
canvas_from_dict(d) ==
    Canvas([nid \in DOMAIN d.nodes |-> node_from_dict(d.nodes[nid])],
           d.root_id, d.active_path, <<>>, <<>>)

\* -------------------------------------------------------------- context
RECURSIVE context_prefix(_, _, _)
\* the for loop of get_context_for_operation over active_path: the ids whose
\* nodes were collected before the break, and whether self.nodes[pid] raised
context_prefix(ns, path, node_id) ==
    IF path = <<>> \/ Head(path) = node_id THEN [ctx |-> <<>>, raised |-> FALSE]
    ELSE IF Head(path) \notin DOMAIN ns THEN [ctx |-> <<>>, raised |-> TRUE]
    ELSE LET rest == context_prefix(ns, Tail(path), node_id)
         IN  [ctx |-> <<Head(path)>> \o rest.ctx, raised |-> rest.raised]

\* a get_context_for_operation that drops what it collected when the loop
\* ends without reaching node_id
get_context_node_alone(c, node_id) ==
    LET pre == context_prefix(c.nodes, c.active_path, node_id)
        on_path == node_id \in Range(c.active_path)
    IN  IF pre.raised THEN [ctx |-> <<>>, raised |-> TRUE]
        ELSE [ctx |-> (IF on_path THEN pre.ctx ELSE <<>>)
                      \o (IF node_id \in DOMAIN c.nodes THEN <<node_id>> ELSE <<>>),
              raised |-> FALSE]

\* Canvas.get_context_for_operation: the ids of the returned nodes, in order
get_context_for_operation(c, node_id) ==
    LET pre == context_prefix(c.nodes, c.active_path, node_id)
    IN  IF pre.raised THEN [ctx |-> <<>>, raised |-> TRUE]
        ELSE [ctx |-> IF node_id \in DOMAIN c.nodes
                      THEN Append(pre.ctx, node_id) ELSE pre.ctx,
              raised |-> FALSE]

RECURSIVE get_depth(_, _)
\* get_depth inside get_context_for_multiple_nodes: the nodes on the way up
\* from `current`, itself included, until parent_id is falsy or no key of nodes
get_depth(ns, current) ==
    IF current = None \/ current \notin DOMAIN ns THEN 0
    ELSE 1 + get_depth(ns, ns[current].parent_id)

RECURSIVE present_ids(_, _)
\* [nid for nid in node_ids if nid in self.nodes]
present_ids(ns, node_ids) ==
    IF node_ids = <<>> THEN <<>>
    ELSE IF Head(node_ids) \in DOMAIN ns
         THEN <<Head(node_ids)>> \o present_ids(ns, Tail(node_ids))
         ELSE present_ids(ns, Tail(node_ids))

RECURSIVE insert_by_depth(_, _, _)
\* x put behind every element of s that is not deeper than x
insert_by_depth(ns, s, x) ==
    IF s = <<>> THEN <<x>>
    ELSE IF get_depth(ns, Head(s)) <= get_depth(ns, x)
         THEN <<Head(s)>> \o insert_by_depth(ns, Tail(s), x)
         ELSE <<x>> \o s

RECURSIVE sorted_by_depth(_, _)
\* sorted(..., key=depth): ascending, equal depths in their order in s
sorted_by_depth(ns, s) ==
    IF s = <<>> THEN <<>>
    ELSE insert_by_depth(ns, sorted_by_depth(ns, SubSeq(s, 1, Len(s) - 1)), s[Len(s)])

RECURSIVE ancestor_chain(_, _)
\* the chain from the topmost ancestor down to `current` (the while loop and
\* the reverse() that follows it)
ancestor_chain(ns, current) ==
    IF current = None \/ current \notin DOMAIN ns THEN <<>>
    ELSE Append(ancestor_chain(ns, ns[current].parent_id), current)

RECURSIVE add_ancestors(_, _, _)
\* the loop over ancestor_chain: every id not seen before is marked seen, and
\* is appended to the context unless it is one of node_ids
add_ancestors(chain, node_ids, acc) ==
    IF chain = <<>> THEN acc
    ELSE LET nid == Head(chain)
             a1 == IF nid \in acc.seen THEN acc
                   ELSE [context |-> IF nid \notin Range(node_ids)
                                     THEN Append(acc.context, nid) ELSE acc.context,
                         seen |-> acc.seen \cup {nid}]
         IN  add_ancestors(Tail(chain), node_ids, a1)

RECURSIVE add_selected_unchecked(_, _)
\* an add_selected that does not look at `seen`
add_selected_unchecked(sorted_nodes, acc) ==
    IF sorted_nodes = <<>> THEN acc
    ELSE add_selected_unchecked(Tail(sorted_nodes),
             [context |-> Append(acc.context, Head(sorted_nodes)),
              seen |-> acc.seen \cup {Head(sorted_nodes)}])

RECURSIVE add_selected(_, _)
\* the loop over sorted_nodes: every id not seen before is appended and marked
add_selected(sorted_nodes, acc) ==
    IF sorted_nodes = <<>> THEN acc
    ELSE LET nid == Head(sorted_nodes)
             a1 == IF nid \in acc.seen THEN acc
                   ELSE [context |-> Append(acc.context, nid),
                         seen |-> acc.seen \cup {nid}]
         IN  add_selected(Tail(sorted_nodes), a1)

\* Canvas.get_context_for_multiple_nodes: the ids of the returned nodes
get_context_for_multiple_nodes(c, node_ids) ==
    IF node_ids = <<>> THEN <<>>
    ELSE LET sorted_nodes == sorted_by_depth(c.nodes, present_ids(c.nodes, node_ids))
         IN  IF sorted_nodes = <<>> THEN <<>>
             ELSE LET chain == ancestor_chain(c.nodes, sorted_nodes[1])
                      a1 == add_ancestors(chain, node_ids, [context |-> <<>>, seen |-> {}])
                  IN  add_selected(sorted_nodes, a1).context

\* ------------------------------------------------------------ recording
Pre == [nodes |-> nodes, root_id |-> root_id, active_path |-> active_path,
        undo |-> undo_stack, redo |-> redo_stack]

Record(op, a, b, ok, ret, raised) ==
    last' = [op |-> op, a |-> a, b |-> b, ok |-> ok, ret |-> ret,
             raised |-> raised, pre |-> Pre]

Commit(c) ==
    /\ nodes' = c.nodes
    /\ root_id' = c.root_id
    /\ active_path' = c.active_path
    /\ undo_stack' = c.undo
    /\ redo_stack' = c.redo
    /\ steps' = steps + 1

\* The run of calls being followed: a sequence M of mutation calls (phase
\* "M": `calls` of them so far, `recording` of which were calls that record an
\* undo snapshot, started in state `base`), then undo() calls (phase "U", `k`
\* of them, the first made in state `post`), then redo() calls (phase "R",
\* `k` of them).  Any other call starts an empty M in the state it leaves.
FreshRun(c) ==
    [mode |-> run.mode, phase |-> "M", base |-> snapshot(c), post |-> snapshot(c),
     calls |-> 0, recording |-> 0, k |-> 0]

\* a mutation call, made in state c, that does (rec) or does not record
RunMutation(c, rec) ==
    LET r == IF run.phase = "M" THEN run ELSE FreshRun(c)
    IN  run' = [r EXCEPT !.calls = @ + 1,
                         !.recording = @ + (IF rec THEN 1 ELSE 0)]

\* an undo() call made in state c and leaving state c2
RunUndo(c, c2) ==
    run' = IF run.phase = "M" /\ run.calls > 0
           THEN [run EXCEPT !.phase = "U", !.post = snapshot(c), !.k = 1]
           ELSE IF run.phase = "U" /\ run.k < run.calls
           THEN [run EXCEPT !.k = @ + 1]
           ELSE FreshRun(c2)

\* a redo() call leaving state c2
RunRedo(c2) ==
    run' = IF run.phase = "U" /\ run.k = run.calls
           THEN [run EXCEPT !.phase = "R", !.k = 1]
           ELSE IF run.phase = "R" /\ run.k < run.calls
           THEN [run EXCEPT !.k = @ + 1]
           ELSE FreshRun(c2)

\* ids a caller can name: every id handed out so far, and an unknown one
ArgIds == (1..(next_id - 1)) \cup {Ghost}

\* parent_id values when _generate_id may hand out the id the caller names
ParentArgsNotFresh == (1..next_id) \cup {Ghost, None}

\* parent_id values a caller can pass to a factory: any of those, or none
ParentArgs == ArgIds \cup {None}

\* node_ids lists a caller can pass: up to MaxSel of those ids, repeats allowed
Selections == UNION {[1..n -> ArgIds] : n \in 0..MaxSel}

\* the place of a call in a "link" behaviour: nodes are added first, then
\* linked, then deleted, then undo() and redo() are called, then links removed
CallRank(op) ==
    CASE op \in {"init", "add_root", "add_note", "add_node"} -> 1
      [] op = "add_link" -> 2
      [] op = "delete_node" -> 3
      [] op \in {"undo", "redo"} -> 4
      [] op = "remove_link" -> 5
      [] OTHER -> 0

\* When a call may be made.  A "free" behaviour makes any MaxSteps calls, a
\* "select" behaviour any MaxSelSteps calls, a "link" behaviour MaxLinkSteps
\* calls in the order of CallRank.  A
\* "long" behaviour adds the root, edits it up to LongM - 1 times, calls
\* undo() at most as often as it mutated and then redo() as often.
MayCall(op) ==
    \/ run.mode = "free" /\ steps < MaxSteps
    \/ run.mode = "select" /\ steps < MaxSelSteps
    \/ /\ run.mode = "link" /\ steps < MaxLinkSteps
       /\ CallRank(op) > 0 /\ CallRank(op) >= CallRank(last.op)
    \/ /\ run.mode = "long"
       /\ CASE op = "add_root"  -> run.phase = "M" /\ run.calls = 0
            [] op = "edit_node" -> run.phase = "M" /\ run.calls > 0 /\ run.calls < LongM
            [] op = "undo"      -> \/ run.phase = "M" /\ run.calls > 0
                                   \/ run.phase = "U" /\ run.k < run.calls
            [] op = "redo"      -> \/ run.phase = "U" /\ run.k = run.calls
                                   \/ run.phase = "R" /\ run.k < run.calls
            [] OTHER            -> FALSE

\* -------------------------------------------------------------- actions
\* Every caller leaves record_undo at its default, True.
InitCanvas ==
    /\ nodes = <<>>
    /\ root_id = None
    /\ active_path = <<>>
    /\ undo_stack = <<>>
    /\ redo_stack = <<>>
    /\ next_id = 1
    /\ steps = 0
    /\ last = [op |-> "init", a |-> None, b |-> None, ok |-> TRUE, ret |-> None,
               raised |-> FALSE, pre |-> Canvas(<<>>, None, <<>>, <<>>, <<>>)]
    /\ pending = [target |-> None, deleted |-> FALSE]

InitRun(mode) ==
    run = [mode |-> mode, phase |-> "M",
           base |-> [nodes |-> <<>>, root_id |-> None, active_path |-> <<>>],
           post |-> [nodes |-> <<>>, root_id |-> None, active_path |-> <<>>],
           calls |-> 0, recording |-> 0, k |-> 0]

\* Canvas(name)
Init == InitCanvas /\ InitRun("free")

InitLong == InitCanvas /\ \E mode \in {"free", "long"} : InitRun(mode)

InitSelect == InitCanvas /\ InitRun("select")

InitLink == InitCanvas /\ \E mode \in {"select", "link"} : InitRun(mode)

\* canvas.add_node(CanvasNode.create_root(...))
AddRoot ==
    /\ MayCall("add_root") /\ next_id <= MaxIds
    /\ Commit(add_node(Cur, create_root(next_id), TRUE))
    /\ next_id' = next_id + 1
    /\ Record("add_node", next_id, None, TRUE, None, FALSE)
    /\ RunMutation(Cur, TRUE)
    /\ UNCHANGED pending

\* canvas.add_node(CanvasNode.create_note(..., parent_id))
AddNote ==
    /\ MayCall("add_note") /\ next_id <= MaxIds
    /\ \E p \in ParentArgs :
         /\ Commit(add_node(Cur, create_note(next_id, p), TRUE))
         /\ Record("add_node", next_id, p, TRUE, None, FALSE)
    /\ next_id' = next_id + 1
    /\ RunMutation(Cur, TRUE)
    /\ UNCHANGED pending

\* canvas.set_focus(node_id)
SetFocus ==
    /\ MayCall("set_focus")
    /\ \E id \in ArgIds :
         LET r == set_focus(Cur, id)
         IN  /\ Commit(r.c)
             /\ Record("set_focus", id, None, TRUE, None, r.raised)
             /\ run' = FreshRun(r.c)
    /\ UNCHANGED <<next_id, pending>>

\* canvas.delete_node(node_id)
DeleteNode ==
    /\ MayCall("delete_node")
    /\ \E id \in ArgIds :
         LET r == delete_node(Cur, id, TRUE)
         IN  /\ Commit(r.c)
             /\ Record("delete_node", id, None, r.deleted, r.ret, r.raised)
             /\ RunMutation(Cur, id \in DOMAIN nodes /\ nodes[id].type # ROOT)
    /\ UNCHANGED next_id
    /\ pending' = [pending EXCEPT !.deleted = @ \/ pending.target \in DOMAIN nodes \ DOMAIN nodes']

\* canvas.undo()
Undo ==
    /\ MayCall("undo")
    /\ LET r == undo(Cur)
       IN  /\ Commit(r.c)
           /\ Record("undo", None, None, r.ok, None, FALSE)
           /\ RunUndo(Cur, r.c)
    /\ UNCHANGED <<next_id, pending>>

\* canvas.redo()
Redo ==
    /\ MayCall("redo")
    /\ LET r == redo(Cur)
       IN  /\ Commit(r.c)
           /\ Record("redo", None, None, r.ok, None, FALSE)
           /\ RunRedo(r.c)
    /\ UNCHANGED <<next_id, pending>>

\* canvas.edit_node(node_id, new_content)
EditNode ==
    /\ MayCall("edit_node")
    /\ \E id \in IF run.mode = "long" THEN {root_id} ELSE ArgIds, content \in Contents :
         LET r == edit_node(Cur, id, content, TRUE)
         IN  /\ Commit(r.c)
             /\ Record("edit_node", id, None, r.ok, None, FALSE)
             /\ RunMutation(Cur, id \in DOMAIN nodes)
    /\ UNCHANGED <<next_id, pending>>

\* canvas.add_link(from_id, to_id)
AddLink ==
    /\ MayCall("add_link")
    /\ \E from_id \in ArgIds, to_id \in ArgIds :
         LET r == add_link(Cur, from_id, to_id, TRUE)
         IN  /\ Commit(r.c)
             /\ Record("add_link", from_id, to_id, r.ok, None, FALSE)
             /\ RunMutation(Cur, from_id \in DOMAIN nodes /\ to_id \in DOMAIN nodes
                                 /\ from_id # to_id)
    /\ UNCHANGED <<next_id, pending>>

\* canvas.remove_link(from_id, to_id)
RemoveLink ==
    /\ MayCall("remove_link")
    /\ \E from_id \in ArgIds, to_id \in ArgIds :
         LET r == remove_link(Cur, from_id, to_id, TRUE)
         IN  /\ Commit(r.c)
             /\ Record("remove_link", from_id, to_id, r.ok, None, FALSE)
             /\ RunMutation(Cur, from_id \in DOMAIN nodes)
    /\ UNCHANGED <<next_id, pending>>

\* POST /skill/run up to `await state.client.complete(prompt)`: the target
\* is looked up (404 when it is no key) and its context gathered, then the
\* handler is suspended with `focus` in hand
RunSkillAwait ==
    /\ MayCall("run_skill") /\ pending.target = None
    /\ \E id \in ArgIds :
         /\ id \in DOMAIN nodes
         /\ ~get_context_for_operation(Cur, id).raised
         /\ pending' = [target |-> id, deleted |-> FALSE]
         /\ Record("run_skill_await", id, None, TRUE, None, FALSE)
    /\ Commit(Cur)
    /\ run' = FreshRun(Cur)
    /\ UNCHANGED next_id

\* POST /skill/run from the await on: the result node is created under
\* focus.id, added and focused
RunSkillResume ==
    /\ MayCall("run_skill") /\ pending.target # None /\ next_id <= MaxIds
    /\ LET c1 == add_node(Cur, create_operation(next_id, pending.target), TRUE)
           f == set_focus(c1, next_id)
       IN  /\ Commit(f.c)
           /\ Record("run_skill", next_id, pending.target, pending.deleted, None, f.raised)
    /\ RunMutation(Cur, TRUE)
    /\ next_id' = next_id + 1
    /\ pending' = [target |-> None, deleted |-> FALSE]

Next ==
    \/ Undo \/ Redo
    \/ AddRoot \/ AddNote \/ SetFocus \/ DeleteNode \/ EditNode
    \/ AddLink \/ RemoveLink

\* any MaxSteps public calls on a new canvas
Spec == Init /\ [][Next]_vars

\* the same, and the long behaviours that overflow the undo stack
SpecLong == InitLong /\ [][Next]_vars

\* any MaxSelSteps public calls on a new canvas, for the claims that range
\* over every node_ids list of the canvas reached
SpecSelect == InitSelect /\ [][Next]_vars

\* the same, and the behaviours that link nodes, delete some of them and then
\* remove links
SpecLink == InitLink /\ [][Next]_vars

\* the HTTP handlers interleaving at the await of run_skill
NextServer == Next \/ RunSkillAwait \/ RunSkillResume

\* any MaxSteps handler steps on a new canvas
SpecServer == Init /\ [][NextServer]_vars

\* ================================================================ claims
\* the call the last step made
Called(op) == last.op = op

\* C1: after every public Canvas operation, every node that has a parent_id p
\* has p among the keys of nodes and is listed in nodes[p].children_ids.
C1_ParentResolves ==
    \A n \in DOMAIN nodes :
        nodes[n].parent_id # None =>
            /\ nodes[n].parent_id \in DOMAIN nodes
            /\ n \in Range(nodes[nodes[n].parent_id].children_ids)

\* C2: after every public Canvas operation, every id listed in some
\* nodes[p].children_ids is a key of nodes and has parent_id p.
C2_ChildrenResolve ==
    \A p \in DOMAIN nodes :
        \A i \in 1..Len(nodes[p].children_ids) :
            LET ch == nodes[p].children_ids[i]
            IN  ch \in DOMAIN nodes /\ nodes[ch].parent_id = p

\* a delete_node took a child away from a parent that keeps another child
C2_Witness ==
    /\ Called("delete_node") /\ last.ok
    /\ last.ret \in DOMAIN nodes
    /\ nodes[last.ret].children_ids # <<>>
    /\ Len(last.pre.nodes[last.ret].children_ids) > Len(nodes[last.ret].children_ids)

RECURSIVE ChildClosure(_, _)
\* the least set that holds S and the children_ids of its members
ChildClosure(ns, S) ==
    LET T == S \cup UNION {Range(ns[p].children_ids) : p \in S \cap DOMAIN ns}
    IN  IF T = S THEN S ELSE ChildClosure(ns, T)

\* the descendants of id, transitively through children_ids
DescendantsOf(ns, id) == ChildClosure(ns, {id}) \ {id}

\* delete_node was called on an existing node that is not of type ROOT
DeletedExisting ==
    /\ Called("delete_node")
    /\ last.a \in DOMAIN last.pre.nodes
    /\ last.pre.nodes[last.a].type # ROOT

\* C5: delete_node(id) on an existing non-root node with k descendants removes
\* exactly that node and its k descendants: len(nodes) drops by k + 1 and no
\* node outside the subtree is removed.
C5_CascadeDelete ==
    DeletedExisting =>
        LET sub == DescendantsOf(last.pre.nodes, last.a) \cup {last.a}
        IN  /\ DOMAIN nodes = DOMAIN last.pre.nodes \ sub
            /\ Cardinality(DOMAIN nodes) =
                   Cardinality(DOMAIN last.pre.nodes)
                   - (Cardinality(DescendantsOf(last.pre.nodes, last.a)) + 1)

\* a node with a grandchild below it was deleted
C5_Witness ==
    /\ DeletedExisting
    /\ \E ch \in DescendantsOf(last.pre.nodes, last.a) :
           DescendantsOf(last.pre.nodes, ch) # {}

\* the node count, root_id and active_path of the canvas are those of snapshot s
SameShape(s) ==
    /\ Cardinality(DOMAIN nodes) = Cardinality(DOMAIN s.nodes)
    /\ root_id = s.root_id
    /\ active_path = s.active_path

\* C3 as stated: after any sequence M of mutation calls (add_node,
\* delete_node, edit_node, add_link, remove_link), |M| undo() calls restore
\* the node count, root_id and active_path held before M, and |M| redo()
\* calls then restore those held after M.
C3_UndoSymmetryAnyCalls ==
    /\ run.phase = "U" /\ run.k = run.calls => SameShape(run.base)
    /\ run.phase = "R" /\ run.k = run.calls => SameShape(run.post)

\* M holds at most MAX_UNDO_HISTORY calls and each of them records an undo
\* snapshot: every add_node, delete_node of an existing node that is not of
\* type ROOT, edit_node of an existing node, add_link between two different
\* existing nodes, remove_link from an existing node
RunRecorded == run.recording = run.calls /\ run.calls <= MAX_UNDO_HISTORY

\* C3 amended: after a sequence M of at most 50 mutation calls that each
\* record an undo snapshot, |M| undo() calls restore the node count, root_id
\* and active_path held before M, and |M| redo() calls then restore those
\* held after M.
C3_UndoSymmetryRecorded ==
    /\ run.phase = "U" /\ run.k = run.calls /\ RunRecorded => SameShape(run.base)
    /\ run.phase = "R" /\ run.k = run.calls /\ RunRecorded => SameShape(run.post)

\* MAX_UNDO_HISTORY mutations were undone and redone, one by one
C3_Witness ==
    /\ run.phase = "R" /\ run.k = run.calls /\ RunRecorded
    /\ run.calls = MAX_UNDO_HISTORY
    /\ Cardinality(DOMAIN run.base.nodes) # Cardinality(DOMAIN run.post.nodes)

\* the last call changed nodes, root_id or active_path
Changed ==
    \/ nodes # last.pre.nodes
    \/ root_id # last.pre.root_id
    \/ active_path # last.pre.active_path

\* the top of the undo stack is the pre-call state and nothing can be redone
PreCallOnTop ==
    /\ undo_stack # <<>>
    /\ undo_stack[Len(undo_stack)] = snapshot(last.pre)
    /\ ~can_redo(Cur)

\* C4 as stated: whenever a call of add_node, delete_node, edit_node,
\* set_focus, add_link or remove_link changes nodes, root_id or active_path,
\* the top of the undo stack is the pre-call state and can_redo() is false.
C4_EveryEntryPointSnapshots ==
    /\ last.op \in {"add_node", "delete_node", "edit_node", "set_focus",
                    "add_link", "remove_link"}
    /\ Changed
    => PreCallOnTop

\* C4 amended: that holds of add_node, delete_node, edit_node, add_link and
\* remove_link; set_focus changes active_path without touching either stack.
C4_MutatorsSnapshot ==
    /\ (/\ last.op \in {"add_node", "delete_node", "edit_node", "add_link", "remove_link"}
        /\ Changed
        => PreCallOnTop)
    /\ (Called("set_focus") =>
            undo_stack = last.pre.undo /\ redo_stack = last.pre.redo)

\* a mutation changed the canvas while a redo was pending
C4_Witness ==
    /\ last.op \in {"add_node", "delete_node", "edit_node", "add_link", "remove_link"}
    /\ Changed
    /\ last.pre.redo # <<>>

\* the ids the last call removed from nodes
Gone == DOMAIN last.pre.nodes \ DOMAIN nodes

\* C6 as stated: after delete_node(id) succeeds, no deleted id appears in the
\* children_ids or in the links_to of a node that remains.
C6_NoDanglingReference ==
    DeletedExisting =>
        \A n \in DOMAIN nodes :
            /\ Gone \cap Range(nodes[n].children_ids) = {}
            /\ Gone \cap Range(nodes[n].links_to) = {}

\* C6 amended: after delete_node(id) succeeds, no deleted id appears in the
\* children_ids of a node that remains; the links_to of every remaining node
\* is left as it was, entries naming deleted nodes included.
C6_NoDanglingChild ==
    DeletedExisting =>
        \A n \in DOMAIN nodes :
            /\ Gone \cap Range(nodes[n].children_ids) = {}
            /\ nodes[n].links_to = last.pre.nodes[n].links_to

\* a node that a remaining node links to and lists as a child was deleted
C6_Witness ==
    /\ DeletedExisting
    /\ \E n \in DOMAIN nodes :
           /\ Gone \cap Range(nodes[n].links_to) # {}
           /\ Gone \cap Range(last.pre.nodes[n].children_ids) # {}

\* path is a parent chain of existing nodes: each element's parent_id is the
\* element before it
IsChain(path) ==
    /\ \A i \in 1..Len(path) : path[i] \in DOMAIN nodes
    /\ \A i \in 2..Len(path) : nodes[path[i]].parent_id = path[i - 1]

\* C7: after set_focus(x) for an id x in nodes, active_path ends in x and each
\* element's parent_id is the element before it; set_focus on an id that is
\* not in nodes leaves active_path unchanged.
C7_FocusConsistency ==
    Called("set_focus") =>
        IF last.a \in DOMAIN last.pre.nodes
        THEN /\ active_path # <<>>
             /\ active_path[Len(active_path)] = last.a
             /\ IsChain(active_path)
        ELSE active_path = last.pre.active_path

\* C8: in every reachable state active_path is empty or a chain that starts
\* at root_id, whose elements are keys of nodes and in which each later
\* element's parent_id is the element before it.
C8_ActivePathFromRoot ==
    \/ active_path = <<>>
    \/ active_path[1] = root_id /\ IsChain(active_path)

\* C9: delete_node(id) on a non-root node: if id was in active_path, then
\* afterwards active_path is the chain from the root to the deleted node's
\* parent (ending in that parent, or in the root when the node had no
\* parent); otherwise active_path is unchanged.
C9_DeleteRefocuses ==
    DeletedExisting =>
        IF last.a \in Range(last.pre.active_path)
        THEN /\ active_path # <<>>
             /\ active_path[Len(active_path)] =
                    (IF last.pre.nodes[last.a].parent_id # None
                     THEN last.pre.nodes[last.a].parent_id ELSE root_id)
             /\ active_path[1] = root_id
             /\ IsChain(active_path)
        ELSE active_path = last.pre.active_path

\* C10: get_context_for_operation(id) for the id at position i of active_path
\* returns exactly the nodes of active_path up to and including position i,
\* in path order.
C10_ContextIsPathPrefix ==
    \A i \in 1..Len(active_path) :
        LET r == get_context_for_operation(Cur, active_path[i])
        IN  ~r.raised /\ r.ctx = SubSeq(active_path, 1, i)

\* an id that is a key of nodes and not on active_path
OffPath(id) == id \in DOMAIN nodes /\ id \notin Range(active_path)

Count(s, id) == Cardinality({i \in 1..Len(s) : s[i] = id})

\* s is in ascending depth order
AscendingDepth(s) ==
    \A i \in 1..Len(s), j \in 1..Len(s) :
        i < j => get_depth(nodes, s[i]) <= get_depth(nodes, s[j])

\* C12: get_context_for_multiple_nodes(ids) includes every requested id that
\* is present in nodes: every requested node appears in the output exactly
\* once, the requested nodes stand behind the others and in ascending depth
\* order, and for a single requested node x the output ends with x.
C12_MultiContextIncludesRequested ==
    \A ids \in Selections :
        LET out == get_context_for_multiple_nodes(Cur, ids)
            req == Range(ids) \cap DOMAIN nodes
            k == Cardinality(req)
        IN  /\ \A id \in req : Count(out, id) = 1
            /\ Len(out) >= k
            /\ Range(SubSeq(out, Len(out) - k + 1, Len(out))) = req
            /\ AscendingDepth(SubSeq(out, Len(out) - k + 1, Len(out)))

\* C13: the output of get_context_for_multiple_nodes(ids) never contains the
\* same node id twice, for any list ids: repeated ids, ids that are ancestors
\* or descendants of each other, ids that are not in nodes.
C13_MultiContextNoDuplicates ==
    \A ids \in Selections :
        LET out == get_context_for_multiple_nodes(Cur, ids)
        IN  \A i \in 1..Len(out), j \in 1..Len(out) : out[i] = out[j] => i = j

\* a list that names a node twice behind its parent, a list of a node and
\* its parent, and a list with an id that is not in nodes, each with a
\* context that is not empty
C13_Witness ==
    /\ \E ids \in Selections :
           /\ Len(ids) = 3 /\ ids[2] = ids[3]
           /\ ids[1] \in DOMAIN nodes /\ ids[2] \in DOMAIN nodes
           /\ nodes[ids[2]].parent_id = ids[1]
           /\ get_context_for_multiple_nodes(Cur, ids) # <<>>
    /\ \E ids \in Selections :
           /\ Len(ids) = 2 /\ ids[1] \in DOMAIN nodes /\ ids[2] \in DOMAIN nodes
           /\ nodes[ids[1]].parent_id = ids[2]
           /\ get_context_for_multiple_nodes(Cur, ids) # <<>>
    /\ \E ids \in Selections :
           /\ Ghost \in Range(ids)
           /\ get_context_for_multiple_nodes(Cur, ids) # <<>>

\* the last call recorded an undo snapshot
RecordingCall ==
    \/ Called("add_node")
    \/ Called("delete_node") /\ last.ok
    \/ Called("edit_node") /\ last.ok
    \/ /\ Called("add_link")
       /\ last.a \in DOMAIN last.pre.nodes /\ last.b \in DOMAIN last.pre.nodes
       /\ last.a # last.b
    \/ Called("remove_link") /\ last.a \in DOMAIN last.pre.nodes

\* the last n elements of s
LastN(s, n) == IF Len(s) > n THEN SubSeq(s, Len(s) - n + 1, Len(s)) ELSE s

\* more than MAX_UNDO_HISTORY consecutive mutations, each recording a snapshot
RunOverflowed == run.recording = run.calls /\ run.calls > MAX_UNDO_HISTORY

\* C14: the undo stack never holds more than 50 snapshots; a push that would
\* make it 51 evicts the oldest, so after more than 50 consecutive mutations
\* the 50 most recent pre-mutation states, and only those, are restored by
\* undo() one by one, and the 51st undo() returns false.
C14_UndoCapacity ==
    /\ Len(undo_stack) <= MAX_UNDO_HISTORY
    /\ RecordingCall =>
           undo_stack = LastN(Append(last.pre.undo, snapshot(last.pre)), MAX_UNDO_HISTORY)
    /\ run.phase = "U" /\ RunOverflowed =>
           /\ last.ok <=> run.k <= MAX_UNDO_HISTORY
           /\ run.k <= MAX_UNDO_HISTORY =>
                  /\ snapshot(Cur) = last.pre.undo[Len(last.pre.undo)]
                  /\ Len(undo_stack) = MAX_UNDO_HISTORY - run.k
           /\ run.k >= MAX_UNDO_HISTORY =>
                  undo_stack = <<>> /\ snapshot(Cur) # run.base

\* the 51st undo() after more than 50 mutations returned false
C14_Witness ==
    /\ run.phase = "U" /\ RunOverflowed
    /\ run.k = MAX_UNDO_HISTORY + 1
    /\ Called("undo") /\ ~last.ok

\* nodes, root_id and active_path are as before the last call
CanvasUnchanged ==
    /\ nodes = last.pre.nodes
    /\ root_id = last.pre.root_id
    /\ active_path = last.pre.active_path

\* C15: undo() with an empty undo stack returns false and leaves nodes,
\* root_id, active_path and the redo stack unchanged; redo() with an empty
\* redo stack returns false and leaves nodes, root_id, active_path and the
\* undo stack unchanged; otherwise each returns true, and undo() returns true
\* exactly when can_undo() was true before the call.
C15_UndoRedoOnEmptyStack ==
    /\ Called("undo") =>
           /\ last.ok <=> can_undo(last.pre)
           /\ last.ok <=> last.pre.undo # <<>>
           /\ ~last.ok => CanvasUnchanged /\ redo_stack = last.pre.redo
    /\ Called("redo") =>
           /\ last.ok <=> can_redo(last.pre)
           /\ last.ok <=> last.pre.redo # <<>>
           /\ ~last.ok => CanvasUnchanged /\ undo_stack = last.pre.undo

\* undo() found its stack empty while something could be redone
C15_Witness ==
    /\ Called("undo") /\ ~last.ok
    /\ last.pre.redo # <<>>
    /\ last.pre.nodes = <<>>

\* delete_node was called on a ROOT node, on the root, or on an unknown id
DeleteRejected ==
    /\ Called("delete_node")
    /\ \/ last.a \notin DOMAIN last.pre.nodes
       \/ last.a = last.pre.root_id
       \/ last.pre.nodes[last.a].type = ROOT

\* C16: delete_node(id) where id is the root node or is not in nodes returns
\* None and deletes nothing: nodes, root_id, active_path, the undo stack and
\* the redo stack are exactly as before the call.
C16_DeleteRootOrUnknownIsNoOp ==
    DeleteRejected =>
        /\ last.ret = None /\ ~last.ok /\ ~last.raised
        /\ Cur = last.pre

\* the root was not deleted while something could be undone and redone
C16_Witness ==
    /\ DeleteRejected
    /\ last.a = last.pre.root_id
    /\ last.pre.undo # <<>> /\ last.pre.redo # <<>>

\* C17: in every reachable state active_path is empty if and only if the
\* canvas has no root (root_id is None).
C17_PathEmptyIffNoRoot == (active_path = <<>>) <=> (root_id = None)

\* C18: in every reachable state at most one node of nodes has type ROOT.
C18_AtMostOneRoot ==
    Cardinality({n \in DOMAIN nodes : nodes[n].type = ROOT}) <= 1

\* C19 as stated: once root_id is set, no later call of add_node,
\* delete_node, set_focus, edit_node, add_link, remove_link, undo or redo
\* changes its value.
C19_RootIdSetOnce == last.pre.root_id # None => root_id = last.pre.root_id

\* C19 amended: root_id is set by add_node of a ROOT node, to that node's id,
\* and is otherwise changed only by undo() and redo(), which restore the
\* root_id of the snapshot they pop; add_node of another node, delete_node,
\* set_focus, edit_node, add_link and remove_link never change it.
C19_RootIdChangesOnlyByRootAddUndoRedo ==
    /\ Called("add_node") =>
           root_id = (IF nodes[last.a].type = ROOT THEN last.a ELSE last.pre.root_id)
    /\ last.op \in {"delete_node", "set_focus", "edit_node", "add_link", "remove_link"} =>
           root_id = last.pre.root_id
    /\ Called("undo") =>
           root_id = (IF last.ok THEN last.pre.undo[Len(last.pre.undo)].root_id
                      ELSE last.pre.root_id)
    /\ Called("redo") =>
           root_id = (IF last.ok THEN last.pre.redo[Len(last.pre.redo)].root_id
                      ELSE last.pre.root_id)

\* an undo() took the canvas back to having no root
C19_Witness ==
    /\ Called("undo") /\ last.ok
    /\ last.pre.root_id # None
    /\ root_id = None

\* s holds no element twice
NoDuplicates(s) == \A i \in 1..Len(s), j \in 1..Len(s) : s[i] = s[j] => i = j

\* C20: add_link(from, to) returns true and appends to to nodes[from].links_to
\* exactly when both ids are in nodes, from # to and to is not yet in
\* nodes[from].links_to; in every other case it returns false and no links_to
\* changes.  No links_to ever holds an entry twice or its own node's id.
C20_AddLinkValidates ==
    /\ Called("add_link") =>
           LET p == last.pre.nodes
               valid == /\ last.a \in DOMAIN p /\ last.b \in DOMAIN p
                        /\ last.a # last.b
                        /\ last.b \notin Range(p[last.a].links_to)
           IN  /\ last.ok <=> valid
               /\ DOMAIN nodes = DOMAIN p
               /\ \A n \in DOMAIN nodes :
                      nodes[n].links_to =
                          (IF valid /\ n = last.a THEN Append(p[n].links_to, last.b)
                           ELSE p[n].links_to)
    /\ \A n \in DOMAIN nodes :
           NoDuplicates(nodes[n].links_to) /\ n \notin Range(nodes[n].links_to)

\* add_link was asked for a link that is already there
C20_Witness ==
    /\ Called("add_link") /\ ~last.ok
    /\ last.a \in DOMAIN nodes /\ last.b \in DOMAIN nodes /\ last.a # last.b
    /\ last.b \in Range(last.pre.nodes[last.a].links_to)

\* s without the entries equal to x
Except(s, x) == SelectSeq(s, LAMBDA e : e # x)

\* C21 as stated: remove_link(from, to) returns true and removes to from
\* nodes[from].links_to only when both from and to are keys of nodes and
\* from # to; if either id is not in nodes (a to that was deleted after being
\* linked included) it returns false and changes nothing (nodes, here).
C21_RemoveLinkValidatesBoth ==
    Called("remove_link") =>
        LET p == last.pre.nodes
            both == last.a \in DOMAIN p /\ last.b \in DOMAIN p
        IN  /\ last.ok => both /\ last.a # last.b
            /\ ~both => ~last.ok /\ nodes = p

\* C21 amended: remove_link(from, to) validates from only: it returns true and
\* removes to from nodes[from].links_to exactly when from is a key of nodes
\* and to is listed in nodes[from].links_to, whether or not to is still a key
\* of nodes; in every other case it returns false and no links_to changes.
C21_RemoveLinkValidatesFrom ==
    Called("remove_link") =>
        LET p == last.pre.nodes
            listed == last.a \in DOMAIN p /\ last.b \in Range(p[last.a].links_to)
        IN  /\ last.ok <=> listed
            /\ DOMAIN nodes = DOMAIN p
            /\ \A n \in DOMAIN nodes :
                   nodes[n].links_to =
                       (IF listed /\ n = last.a THEN Except(p[n].links_to, last.b)
                        ELSE p[n].links_to)

\* remove_link took away a link to a node that had been deleted
C21_Witness ==
    /\ Called("remove_link") /\ last.ok
    /\ last.b \notin DOMAIN last.pre.nodes
    /\ last.b \notin Range(nodes[last.a].links_to)

\* the first position of x in s
IndexOf(s, x) == CHOOSE i \in 1..Len(s) : s[i] = x /\ \A j \in 1..(i - 1) : s[j] # x

\* C22: after any sequence of add_link, delete_node, undo and redo calls,
\* get_linked_nodes(id) returns, in links_to order, exactly the entries of
\* nodes[id].links_to that are keys of nodes; it never returns or fails on an
\* entry whose node was deleted, and returns the empty list for an unknown id.
C22_LinkedNodesSkipDangling ==
    \A id \in ArgIds :
        LET r == get_linked_nodes(Cur, id)
        IN  /\ ~r.raised
            /\ id \notin DOMAIN nodes => r.ids = <<>>
            /\ id \in DOMAIN nodes =>
                   LET links == nodes[id].links_to
                   IN  /\ Range(r.ids) = Range(links) \cap DOMAIN nodes
                       /\ NoDuplicates(r.ids)
                       /\ \A i \in 1..Len(r.ids), j \in 1..Len(r.ids) :
                              i < j => IndexOf(links, r.ids[i]) < IndexOf(links, r.ids[j])

\* delete_node took away the node that a remaining node links to
C22_Witness ==
    /\ DeletedExisting
    /\ \E id \in DOMAIN nodes :
           /\ nodes[id].links_to = <<last.a>>
           /\ get_linked_nodes(last.pre, id).ids = <<last.a>>
           /\ get_linked_nodes(Cur, id).ids = <<>>

\* C23: links and backlinks are two views of the same directed edges: for
\* any two keys a and b of nodes, b is in get_linked_nodes(a) if and only if
\* a is in get_backlinks(b); and add_link(a, b) never makes a appear in
\* get_linked_nodes(b).
C23_BacklinksAreDual ==
    /\ \A a \in DOMAIN nodes, b \in DOMAIN nodes :
           b \in Range(get_linked_nodes(Cur, a).ids) <=> a \in get_backlinks(Cur, b)
    /\ Called("add_link") =>
           \A b \in DOMAIN nodes :
               b # last.a =>
                   get_linked_nodes(Cur, b).ids = get_linked_nodes(last.pre, b).ids

\* add_link(a, b) made a link that b does not return
C23_Witness ==
    /\ Called("add_link") /\ last.ok
    /\ get_linked_nodes(Cur, last.a).ids = <<last.b>>
    /\ get_backlinks(Cur, last.b) = {last.a}
    /\ get_linked_nodes(Cur, last.b).ids = <<>>
    /\ get_backlinks(Cur, last.a) = {}

\* C24: for every reachable canvas c, Canvas.from_dict(c.to_dict()) has the
\* same node ids with the same type, parent_id, children_ids, links_to and
\* content_full per node, the same root_id and the same active_path as c,
\* and empty undo and redo stacks whatever the stacks of c.
C24_DictRoundTrip ==
    LET c2 == canvas_from_dict(canvas_to_dict(Cur))
    IN  /\ DOMAIN c2.nodes = DOMAIN nodes
        /\ \A n \in DOMAIN nodes :
               /\ c2.nodes[n].type = nodes[n].type
               /\ c2.nodes[n].parent_id = nodes[n].parent_id
               /\ c2.nodes[n].children_ids = nodes[n].children_ids
               /\ c2.nodes[n].links_to = nodes[n].links_to
               /\ c2.nodes[n].content_full = nodes[n].content_full
        /\ c2.root_id = root_id
        /\ c2.active_path = active_path
        /\ c2.undo = <<>> /\ c2.redo = <<>>

\* a canvas with a root, a note below it, a path of two nodes and something
\* to undo
C24_Witness ==
    /\ Len(active_path) = 2
    /\ undo_stack # <<>>
    /\ \E n \in DOMAIN nodes : nodes[n].type = ROOT /\ nodes[n].children_ids # <<>>
    /\ \E n \in DOMAIN nodes : nodes[n].type = USER /\ nodes[n].parent_id = root_id

\* the children of p that are in nodes
ChildrenOf(p) == {x \in DOMAIN nodes : nodes[x].parent_id = p}

\* C25: sibling order is insertion order.  For every node p, children_ids
\* lists the surviving children of p in the order they were added (ids are
\* handed out in ascending order and a node is added when it is created);
\* for a child x of p, get_next_sibling(x) is the child right behind x in
\* that list (None for the last), get_prev_sibling(x) the child right before
\* x (None for the first), and get_next_sibling(a) = b makes
\* get_prev_sibling(b) = a.
C25_SiblingOrder ==
    \A p \in DOMAIN nodes :
        LET kids == nodes[p].children_ids
        IN  /\ Range(kids) = ChildrenOf(p)
            /\ \A i \in 1..Len(kids), j \in 1..Len(kids) : i < j => kids[i] < kids[j]
            /\ \A i \in 1..Len(kids) :
                   /\ get_next_sibling(Cur, kids[i]) =
                          (IF i < Len(kids) THEN kids[i + 1] ELSE None)
                   /\ get_prev_sibling(Cur, kids[i]) =
                          (IF i > 1 THEN kids[i - 1] ELSE None)
            /\ \A a \in Range(kids), b \in Range(kids) :
                   get_next_sibling(Cur, a) = b => get_prev_sibling(Cur, b) = a

\* a node has two children
C25_Witness ==
    \E p \in DOMAIN nodes :
        /\ Len(nodes[p].children_ids) = 2
        /\ get_next_sibling(Cur, nodes[p].children_ids[1]) = nodes[p].children_ids[2]
        /\ get_prev_sibling(Cur, nodes[p].children_ids[2]) = nodes[p].children_ids[1]

\* C26: undo() and redo() are exact inverses on the full state: whenever
\* undo() returns true, a redo() right after it returns true and leaves
\* nodes, root_id, active_path and both stacks as they were before the
\* undo(); and redo() followed by undo() likewise.  The state may be one that
\* set_focus calls left behind the last mutation.
C26_UndoRedoInverse ==
    /\ can_undo(Cur) =>
           LET u == undo(Cur)
               r == redo(u.c)
           IN  u.ok /\ r.ok /\ r.c = Cur
    /\ can_redo(Cur) =>
           LET r == redo(Cur)
               u == undo(r.c)
           IN  r.ok /\ u.ok /\ u.c = Cur

\* set_focus moved the path while there is something to undo and to redo
C26_Witness ==
    /\ Called("set_focus")
    /\ active_path # last.pre.active_path
    /\ can_undo(Cur) /\ can_redo(Cur)
    /\ undo(Cur).c.active_path # active_path

\* C27: in every reachable state len(undo stack) + len(redo stack) <= 50: a
\* recorded mutation caps the undo stack at 50 and empties the redo stack,
\* and undo() and redo() move one snapshot from one stack to the other, so
\* redo() cannot grow the undo stack past 50.
C27_StacksTogetherAtMostCapacity ==
    /\ Len(undo_stack) + Len(redo_stack) <= MAX_UNDO_HISTORY
    /\ RecordingCall => Len(undo_stack) <= MAX_UNDO_HISTORY /\ redo_stack = <<>>
    /\ Called("undo") /\ last.ok =>
           /\ Len(undo_stack) = Len(last.pre.undo) - 1
           /\ Len(redo_stack) = Len(last.pre.redo) + 1
    /\ Called("redo") /\ last.ok =>
           /\ Len(undo_stack) = Len(last.pre.undo) + 1
           /\ Len(redo_stack) = Len(last.pre.redo) - 1

\* a redo() filled the undo stack up to its capacity again
C27_Witness ==
    /\ Called("redo") /\ last.ok
    /\ Len(undo_stack) = MAX_UNDO_HISTORY
    /\ redo_stack = <<>>

\* the last call was a mutator call that reported failure
ReportedFailure ==
    \/ Called("delete_node") /\ last.ret = None /\ ~last.ok
    \/ last.op \in {"edit_node", "add_link", "remove_link"} /\ ~last.ok

\* C28: a mutator call that reports failure changes nothing: when
\* delete_node returns None because nothing was deleted, or edit_node,
\* add_link or remove_link returns false, then nodes, root_id, active_path,
\* the undo stack and the redo stack are as they were before the call.
C28_FailedMutatorChangesNothing == ReportedFailure => Cur = last.pre

RECURSIVE ParentClosure(_, _)
\* the least set that holds S and the parent_id of its members that are nodes
ParentClosure(ns, S) ==
    LET T == S \cup {ns[n].parent_id : n \in S \cap DOMAIN ns}
    IN  IF T = S THEN S ELSE ParentClosure(ns, T)

\* the nodes reached from id by following parent_id at least once
AncestorsOf(ns, id) ==
    IF id \in DOMAIN ns THEN ParentClosure(ns, {ns[id].parent_id}) ELSE {}

\* C29: in every reachable state the parent_id relation is acyclic: following
\* parent_id from any node never visits a node twice, so the upward walk of
\* set_focus ends after at most len(nodes) steps, and the children_ids
\* relation that _collect_descendants follows is acyclic as well.
C29_ParentRelationAcyclic ==
    \A n \in DOMAIN nodes :
        LET w == walk_up(nodes, n, Cardinality(DOMAIN nodes) + 1)
        IN  /\ n \notin AncestorsOf(nodes, n)
            /\ n \notin DescendantsOf(nodes, n)
            /\ ~w.loops
            /\ Len(w.path) <= Cardinality(DOMAIN nodes)

\* set_focus walked up a chain of three nodes
C29_Witness ==
    /\ Called("set_focus")
    /\ Len(active_path) = 3
    /\ active_path # last.pre.active_path

\* run_skill has resumed (last.a is the node it added), and a delete_node
\* removed its target while it was awaiting (kept in last.ok)
ResumedAfterDelete == Called("run_skill") /\ last.ok

\* C30: a run_skill request that looked up its target and awaited the result
\* while a delete_node removed the target: when it resumes and calls add_node
\* and set_focus, the new node's parent_id is a key of nodes that lists it as
\* a child, and set_focus completes without error.
C30_RunSkillAfterDelete ==
    ResumedAfterDelete =>
        /\ last.a \in DOMAIN nodes
        /\ nodes[last.a].parent_id \in DOMAIN nodes
        /\ last.a \in Range(nodes[nodes[last.a].parent_id].children_ids)
        /\ ~last.raised

====
